---- MODULE Spec2Model ----
(***************************************************************************)
(* Model of the cow-monitoring API (app/routes/*.py over app/models.py).   *)
(* Every request handler is split at its database statements, so that      *)
(* requests served by different workers (or by different coroutines of an  *)
(* async session) interleave between a handler's SELECT and its COMMIT.    *)
(***************************************************************************)
EXTENDS Integers, Sequences, FiniteSets, TLC

\* ----------------------------------------------------------------- bounds
\* Identifiers the clients use (path / body parameters).
CowIds == {"c1"}
SensorIds == {"s1"}
\* Concurrent request slots.
Clients == {"r1", "r2"}
\* Sensor units: the two positive-only units and one other unit.
Units == {"L", "kg", "C"}
\* Request bodies of Create Cow.
CowBodies ==
    { [name |-> "Bessie", birthdate |-> "2020-01-09"],
      [name |-> "Daisy", birthdate |-> "2019-09-09"] }
\* Number of values the measurements id sequence hands out.
MaxMeasurements == 1

\* Optional values: None is the empty tuple, Some(x) a one-element tuple.
None == <<>>
Some(x) == <<x>>

\* Measurement values are floats, modelled in tenths: -10 is -1.0, 5 is 0.5.
Tenths == {-10, 0, 5}
Values == {None} \cup {Some(v) : v \in Tenths}
\* Epoch timestamps; TsOverflow stands for a float that
\* datetime.fromtimestamp() rejects (OverflowError / ValueError).
GoodTimestamps == {1}
TsOverflow == 0 - 1
Timestamps == GoodTimestamps \cup {TsOverflow}

\* ------------------------------------------------------------------ state
VARIABLES
    cows,          \* table cows: id -> None | Some([name, birthdate])
    sensors,       \* table sensors: id -> None | Some([unit])
    measurements,  \* table measurements: set of rows
    seq,           \* measurements id sequence: the last value handed out
    flavour,       \* database session flavour of the process: "sync" | "async"
    req,           \* per client: the request in flight and its handler's locals
    last,          \* the response written by the latest step, if any
    loader         \* the bulk loader process: its phase, row tasks, semaphore, counts

vars == <<cows, sensors, measurements, seq, flavour, req, last, loader>>

Idle == [op |-> "idle", pc |-> "idle", cow_id |-> "", sensor_id |-> "",
         body |-> None, local |-> None]

NoResponse == [op |-> "none", status |-> 0, detail |-> "", id |-> "", body |-> None]

\* The bulk loader when it is not run.
NoLoader == [phase |-> "none"]

Response(op, status, detail, id, body) ==
    [op |-> op, status |-> status, detail |-> detail, id |-> id, body |-> body]

\* HTTP statuses of the handlers.
HTTP_201_CREATED == 201
HTTP_204_NO_CONTENT == 204
HTTP_200_OK == 200
HTTP_400_BAD_REQUEST == 400
HTTP_404_NOT_FOUND == 404
HTTP_409_CONFLICT == 409
\* An exception no handler catches: the framework answers 500.
HTTP_500_INTERNAL == 500
\* A path that has routes, none for the request's method.
HTTP_405_METHOD_NOT_ALLOWED == 405

Init ==
    /\ cows = [c \in CowIds |-> None]
    /\ sensors = [s \in SensorIds |-> None]
    /\ measurements = {}
    /\ seq = 0
    /\ flavour \in {"sync", "async"}
    /\ req = [r \in Clients |-> Idle]
    /\ last = NoResponse
    /\ loader = NoLoader

\* -------------------------------------------------------------- Create Cow
\* Variant: a table without the primary key, where a second INSERT of an id
\* takes the place of the first.
CowInsertUnconstrained(id) == TRUE

\* INSERT INTO cows: the primary key rejects a second row with the same id.
CowInsertOk(id) == cows[id] = None

\* Variant: no existence check, every request goes on to its INSERT.
CreateCowCheckMissing(r, id, body) ==
    /\ req[r] = Idle
    /\ req' = [req EXCEPT ![r] = [Idle EXCEPT !.op = "create_cow", !.pc = "commit",
                                                !.cow_id = id, !.body = Some(body)]]
    /\ last' = NoResponse
    /\ UNCHANGED <<cows, sensors, measurements, seq, flavour, loader>>

\* create_cow, lines 23-33: the existence check.
CreateCowCheck(r, id, body) ==
    /\ req[r] = Idle
    /\ IF cows[id] # None
       THEN /\ last' = Response("create_cow", HTTP_409_CONFLICT, "already exists", id, Some(body))
            /\ UNCHANGED req
       ELSE /\ req' = [req EXCEPT ![r] = [Idle EXCEPT !.op = "create_cow", !.pc = "commit",
                                                       !.cow_id = id, !.body = Some(body)]]
            /\ last' = NoResponse
    /\ UNCHANGED <<cows, sensors, measurements, seq, flavour, loader>>

\* create_cow, lines 35-43: db.add and commit. An IntegrityError is not caught.
CreateCowCommit(r) ==
    /\ req[r].op = "create_cow" /\ req[r].pc = "commit"
    /\ LET id == req[r].cow_id IN
       IF CowInsertOk(id)
       THEN /\ cows' = [cows EXCEPT ![id] = req[r].body]
            /\ req' = [req EXCEPT ![r].pc = "refresh"]
            /\ last' = NoResponse
       ELSE /\ last' = Response("create_cow", HTTP_500_INTERNAL, "Internal Server Error", id, req[r].body)
            /\ req' = [req EXCEPT ![r] = Idle]
            /\ UNCHANGED cows
    /\ UNCHANGED <<sensors, measurements, seq, flavour, loader>>

\* create_cow, lines 41/44-45: refresh re-reads the row, then the row is returned.
CreateCowRefresh(r) ==
    /\ req[r].op = "create_cow" /\ req[r].pc = "refresh"
    /\ LET id == req[r].cow_id IN
       last' = IF cows[id] # None
               THEN Response("create_cow", HTTP_201_CREATED, "", id, cows[id])
               ELSE Response("create_cow", HTTP_500_INTERNAL, "Internal Server Error", id, req[r].body)
    /\ req' = [req EXCEPT ![r] = Idle]
    /\ UNCHANGED <<cows, sensors, measurements, seq, flavour, loader>>

\* ----------------------------------------------------------- Create Sensor
\* INSERT INTO sensors: the primary key rejects a second row with the same id.
SensorInsertOk(id) == sensors[id] = None

\* create_sensor, lines 23-37: the existence check.
CreateSensorCheck(r, id, unit) ==
    /\ req[r] = Idle
    /\ IF sensors[id] # None
       THEN /\ last' = Response("create_sensor", HTTP_409_CONFLICT, "already exists", id,
                                Some([unit |-> unit]))
            /\ UNCHANGED req
       ELSE /\ req' = [req EXCEPT ![r] = [Idle EXCEPT !.op = "create_sensor", !.pc = "commit",
                                                       !.sensor_id = id,
                                                       !.body = Some([unit |-> unit])]]
            /\ last' = NoResponse
    /\ UNCHANGED <<cows, sensors, measurements, seq, flavour, loader>>

\* create_sensor, lines 39-47: db.add and commit. An IntegrityError is not caught.
CreateSensorCommit(r) ==
    /\ req[r].op = "create_sensor" /\ req[r].pc = "commit"
    /\ LET id == req[r].sensor_id IN
       IF SensorInsertOk(id)
       THEN /\ sensors' = [sensors EXCEPT ![id] = req[r].body]
            /\ req' = [req EXCEPT ![r].pc = "refresh"]
            /\ last' = NoResponse
       ELSE /\ last' = Response("create_sensor", HTTP_500_INTERNAL, "Internal Server Error",
                                id, req[r].body)
            /\ req' = [req EXCEPT ![r] = Idle]
            /\ UNCHANGED sensors
    /\ UNCHANGED <<cows, measurements, seq, flavour, loader>>

\* create_sensor, lines 45/48-49: refresh re-reads the row, then the row is returned.
CreateSensorRefresh(r) ==
    /\ req[r].op = "create_sensor" /\ req[r].pc = "refresh"
    /\ LET id == req[r].sensor_id IN
       last' = IF sensors[id] # None
               THEN Response("create_sensor", HTTP_201_CREATED, "", id, sensors[id])
               ELSE Response("create_sensor", HTTP_500_INTERNAL, "Internal Server Error",
                             id, req[r].body)
    /\ req' = [req EXCEPT ![r] = Idle]
    /\ UNCHANGED <<cows, sensors, measurements, seq, flavour, loader>>

\* get_sensor: one SELECT.
GetSensor(r, id) ==
    /\ req[r] = Idle
    /\ last' = IF sensors[id] # None
               THEN Response("get_sensor", HTTP_200_OK, "", id, sensors[id])
               ELSE Response("get_sensor", HTTP_404_NOT_FOUND, "sensor not found", id, None)
    /\ UNCHANGED <<cows, sensors, measurements, seq, flavour, req, loader>>

\* ------------------------------------------------------- Create Measurement
Digit(d) ==
    CASE d = 0 -> "0" [] d = 1 -> "1" [] d = 2 -> "2" [] d = 3 -> "3" [] d = 4 -> "4"
      [] d = 5 -> "5" [] d = 6 -> "6" [] d = 7 -> "7" [] d = 8 -> "8" [] d = 9 -> "9"

RECURSIVE NatStr(_)
NatStr(n) == IF n < 10 THEN Digit(n) ELSE NatStr(n \div 10) \o Digit(n % 10)

\* str() of a float given in tenths: -10 is "-1.0", 5 is "0.5".
FloatStr(t) ==
    LET a == IF t < 0 THEN 0 - t ELSE t IN
    (IF t < 0 THEN "-" ELSE "") \o NatStr(a \div 10) \o "." \o Digit(a % 10)

\* Variants of the classification: the null test only for the positive-only
\* units; a strict comparison; positivity for every unit; no error text stored.
ClassifyNullOnlyForUnits(value, unit) ==
    IF unit \in {"L", "kg"}
    THEN IF value = None
         THEN [is_valid |-> FALSE, validation_error |-> Some("value is null")]
         ELSE IF value[1] <= 0
              THEN [is_valid |-> FALSE,
                    validation_error |-> Some("value is " \o FloatStr(value[1]))]
              ELSE [is_valid |-> TRUE, validation_error |-> None]
    ELSE [is_valid |-> TRUE, validation_error |-> None]
ClassifyStrictlyNegative(value, unit) ==
    IF value = None
    THEN [is_valid |-> FALSE, validation_error |-> Some("value is null")]
    ELSE IF unit \in {"L", "kg"} /\ value[1] < 0
         THEN [is_valid |-> FALSE,
               validation_error |-> Some("value is " \o FloatStr(value[1]))]
         ELSE [is_valid |-> TRUE, validation_error |-> None]
ClassifyEveryUnit(value, unit) ==
    IF value = None
    THEN [is_valid |-> FALSE, validation_error |-> Some("value is null")]
    ELSE IF value[1] <= 0
         THEN [is_valid |-> FALSE,
               validation_error |-> Some("value is " \o FloatStr(value[1]))]
         ELSE [is_valid |-> TRUE, validation_error |-> None]
ClassifyNoErrorText(value, unit) ==
    IF value = None
    THEN [is_valid |-> FALSE, validation_error |-> None]
    ELSE IF unit \in {"L", "kg"} /\ value[1] <= 0
         THEN [is_valid |-> FALSE,
               validation_error |-> Some("value is " \o FloatStr(value[1]))]
         ELSE [is_valid |-> TRUE, validation_error |-> None]

\* create_measurement, lines 69-85: (is_valid, validation_error) of a value.
Classify(value, unit) ==
    IF value = None
    THEN [is_valid |-> FALSE, validation_error |-> Some("value is null")]
    ELSE IF unit \in {"L", "kg"} /\ value[1] <= 0
         THEN [is_valid |-> FALSE,
               validation_error |-> Some("value is " \o FloatStr(value[1]))]
         ELSE [is_valid |-> TRUE, validation_error |-> None]

\* datetime.fromtimestamp(float(ts), tz=utc), lines 61-67: raises out of range.
TimestampOk(ts) == ts # TsOverflow

\* The row of table measurements with primary key mid, as a set.
Row(mid) == {m \in measurements : m.id = mid}

\* Variants of the INSERT's constraints: no foreign keys; value NOT NULL.
MeasurementInsertNoForeignKeys(row) == TRUE
MeasurementInsertValueNotNull(row) ==
    sensors[row.sensor_id] # None /\ cows[row.cow_id] # None /\ row.value # None

\* INSERT INTO measurements: both foreign keys must name a stored row
\* (sensor_id, cow_id: nullable=False, ForeignKey; value: nullable=True).
MeasurementInsertOk(row) == sensors[row.sensor_id] # None /\ cows[row.cow_id] # None

\* Variant: the sensor lookup is skipped, the cow is looked up first.
CreateMeasurementSensorUnchecked(r, sid, cid) ==
    /\ req[r] = Idle
    /\ seq < MaxMeasurements
    /\ req' = [req EXCEPT ![r] =
                 [Idle EXCEPT !.op = "create_measurement", !.pc = "cow",
                              !.sensor_id = sid, !.cow_id = cid,
                              !.local = IF sensors[sid] = None THEN Some("L")
                                        ELSE Some(sensors[sid][1].unit)]]
    /\ last' = NoResponse
    /\ UNCHANGED <<cows, sensors, measurements, seq, flavour, loader>>

\* create_measurement, lines 24-41: the sensor is looked up.
CreateMeasurementSensor(r, sid, cid) ==
    /\ req[r] = Idle
    /\ IF sensors[sid] = None
       THEN /\ last' = Response("create_measurement", HTTP_404_NOT_FOUND,
                                "sensor not found", sid, Some([sensor_id |-> sid, cow_id |-> cid]))
            /\ UNCHANGED req
       ELSE /\ seq < MaxMeasurements
            /\ req' = [req EXCEPT ![r] =
                         [Idle EXCEPT !.op = "create_measurement", !.pc = "cow",
                                      !.sensor_id = sid, !.cow_id = cid,
                                      !.local = Some(sensors[sid][1].unit)]]
            /\ last' = NoResponse
    /\ UNCHANGED <<cows, sensors, measurements, seq, flavour, loader>>

\* create_measurement, lines 43-67: the cow is looked up, then the body's
\* timestamp (ts) and value are read and the timestamp is converted.
CreateMeasurementCow(r, ts, value) ==
    /\ req[r].op = "create_measurement" /\ req[r].pc = "cow"
    /\ LET cid == req[r].cow_id
           echo == Some([sensor_id |-> req[r].sensor_id, cow_id |-> cid,
                         timestamp |-> ts, value |-> value])
       IN
       IF cows[cid] = None
       THEN /\ last' = Response("create_measurement", HTTP_404_NOT_FOUND,
                                "cow not found", cid, echo)
            /\ req' = [req EXCEPT ![r] = Idle]
       ELSE IF ~TimestampOk(ts)
       THEN /\ last' = Response("create_measurement", HTTP_400_BAD_REQUEST,
                                "Invalid timestamp", "", echo)
            /\ req' = [req EXCEPT ![r] = Idle]
       ELSE /\ req' = [req EXCEPT ![r].pc = "commit",
                                  ![r].body = Some([timestamp |-> ts, value |-> value])]
            /\ last' = NoResponse
    /\ UNCHANGED <<cows, sensors, measurements, seq, flavour, loader>>

\* create_measurement, lines 69-93: the value is classified with the unit of the
\* sensor object read before, then db.add and commit. The id comes from the
\* sequence (taken also when the INSERT fails); an IntegrityError is not caught.
CreateMeasurementCommit(r) ==
    /\ req[r].op = "create_measurement" /\ req[r].pc = "commit"
    /\ seq < MaxMeasurements
    /\ seq' = seq + 1
    /\ LET sid == req[r].sensor_id
           cid == req[r].cow_id
           b == req[r].body[1]
           c == Classify(b.value, req[r].local[1])
           row == [id |-> seq + 1, sensor_id |-> sid, cow_id |-> cid,
                   timestamp |-> b.timestamp, value |-> b.value,
                   is_valid |-> c.is_valid, validation_error |-> c.validation_error]
       IN
       IF MeasurementInsertOk(row)
       THEN /\ measurements' = measurements \cup {row}
            /\ req' = [req EXCEPT ![r].pc = "refresh", ![r].body = None,
                                  ![r].local = Some(row.id)]
            /\ last' = NoResponse
       ELSE /\ last' = Response("create_measurement", HTTP_500_INTERNAL,
                                "Internal Server Error", "",
                                Some([sensor_id |-> sid, cow_id |-> cid,
                                      timestamp |-> b.timestamp, value |-> b.value]))
            /\ req' = [req EXCEPT ![r] = Idle]
            /\ UNCHANGED measurements
    /\ UNCHANGED <<cows, sensors, flavour, loader>>

\* create_measurement, lines 91/94-96: refresh re-reads the row, then it is returned.
CreateMeasurementRefresh(r) ==
    /\ req[r].op = "create_measurement" /\ req[r].pc = "refresh"
    /\ LET mid == req[r].local[1] IN
       last' = IF Row(mid) # {}
               THEN Response("create_measurement", HTTP_201_CREATED, "", "",
                             Some(CHOOSE m \in Row(mid) : TRUE))
               ELSE Response("create_measurement", HTTP_500_INTERNAL,
                             "Internal Server Error", "", None)
    /\ req' = [req EXCEPT ![r] = Idle]
    /\ UNCHANGED <<cows, sensors, measurements, seq, flavour, loader>>

\* get_measurement: one SELECT.
GetMeasurement(r, mid) ==
    /\ req[r] = Idle
    /\ last' = IF Row(mid) # {}
               THEN Response("get_measurement", HTTP_200_OK, "", "",
                             Some(CHOOSE m \in Row(mid) : TRUE))
               ELSE Response("get_measurement", HTTP_404_NOT_FOUND,
                             "measurement not found", "", Some(mid))
    /\ UNCHANGED <<cows, sensors, measurements, seq, flavour, req, loader>>

\* ------------------------------------------------------- Delete Measurement
\* delete_measurement, lines 169-191. AsyncSession.delete is a coroutine that the
\* handler does not await: under the async flavour nothing is marked deleted.
DeleteMeasurementLoad(r, mid) ==
    /\ req[r] = Idle
    /\ IF Row(mid) = {}
       THEN /\ last' = Response("delete_measurement", HTTP_404_NOT_FOUND,
                                "measurement not found", "", Some(mid))
            /\ UNCHANGED req
       ELSE IF flavour = "async"
       THEN /\ last' = Response("delete_measurement", HTTP_204_NO_CONTENT, "", "", Some(mid))
            /\ UNCHANGED req
       ELSE /\ req' = [req EXCEPT ![r] = [Idle EXCEPT !.op = "delete_measurement",
                                                       !.pc = "commit", !.local = Some(mid)]]
            /\ last' = NoResponse
    /\ UNCHANGED <<cows, sensors, measurements, seq, flavour, loader>>

\* delete_measurement, lines 186-191 (sync): DELETE by primary key and commit.
DeleteMeasurementCommit(r) ==
    /\ req[r].op = "delete_measurement" /\ req[r].pc = "commit"
    /\ measurements' = measurements \ Row(req[r].local[1])
    /\ last' = Response("delete_measurement", HTTP_204_NO_CONTENT, "", "", req[r].local)
    /\ req' = [req EXCEPT ![r] = Idle]
    /\ UNCHANGED <<cows, sensors, seq, flavour, loader>>

\* ------------------------------------------------------------ Delete Sensor
\* delete_sensor, lines 97-110: the sensor is looked up. Under the async flavour
\* db.delete() and db.commit() return coroutines that are never awaited (lines
\* 112-114): the handler answers 204 and the store is left as it was.
DeleteSensorLoad(r, id) ==
    /\ req[r] = Idle
    /\ IF sensors[id] = None
       THEN /\ last' = Response("delete_sensor", HTTP_404_NOT_FOUND, "sensor not found", id, None)
            /\ UNCHANGED req
       ELSE IF flavour = "async"
       THEN /\ last' = Response("delete_sensor", HTTP_204_NO_CONTENT, "", id, None)
            /\ UNCHANGED req
       ELSE /\ req' = [req EXCEPT ![r] = [Idle EXCEPT !.op = "delete_sensor",
                                                       !.pc = "cascade", !.sensor_id = id]]
            /\ last' = NoResponse
    /\ UNCHANGED <<cows, sensors, measurements, seq, flavour, loader>>

\* delete_sensor, line 112 (sync): db.delete() loads Sensor.measurements, the
\* rows the delete cascades to (models.py, cascade="all, delete-orphan").
DeleteSensorCascade(r) ==
    /\ req[r].op = "delete_sensor" /\ req[r].pc = "cascade"
    /\ req' = [req EXCEPT ![r].pc = "commit",
                          ![r].local = Some({m.id : m \in {x \in measurements :
                                                           x.sensor_id = req[r].sensor_id}})]
    /\ last' = NoResponse
    /\ UNCHANGED <<cows, sensors, measurements, seq, flavour, loader>>

\* DELETE FROM sensors: no remaining measurement may reference the row.
SensorDeleteOk(id, remaining) == \A m \in remaining : m.sensor_id # id

\* delete_sensor, line 113 (sync): the flush deletes the loaded measurements,
\* then the sensor; a foreign-key violation rolls the transaction back.
DeleteSensorCommit(r) ==
    /\ req[r].op = "delete_sensor" /\ req[r].pc = "commit"
    /\ LET id == req[r].sensor_id
           remaining == {m \in measurements : m.id \notin req[r].local[1]}
       IN
       IF SensorDeleteOk(id, remaining)
       THEN /\ measurements' = remaining
            /\ sensors' = [sensors EXCEPT ![id] = None]
            /\ last' = Response("delete_sensor", HTTP_204_NO_CONTENT, "", id, None)
       ELSE /\ last' = Response("delete_sensor", HTTP_500_INTERNAL,
                                "Internal Server Error", id, None)
            /\ UNCHANGED <<sensors, measurements>>
    /\ req' = [req EXCEPT ![r] = Idle]
    /\ UNCHANGED <<cows, seq, flavour, loader>>

\* --------------------------------------------------------------- Delete Cow
\* The cows router (cows.py, lines 12-96) registers POST and GET on /{cow_id} and
\* no DELETE: the framework answers 405 and no handler runs.
DeleteCow(r, id) ==
    /\ req[r] = Idle
    /\ last' = Response("delete_cow", HTTP_405_METHOD_NOT_ALLOWED, "Method Not Allowed", id, None)
    /\ UNCHANGED <<cows, sensors, measurements, seq, flavour, req, loader>>

MeasurementIds == 1..MaxMeasurements

Next ==
    \/ \E r \in Clients, id \in CowIds, body \in CowBodies : CreateCowCheck(r, id, body)
    \/ \E r \in Clients : CreateCowCommit(r)
    \/ \E r \in Clients : CreateCowRefresh(r)
    \/ \E r \in Clients, id \in CowIds : DeleteCow(r, id)
    \/ \E r \in Clients, id \in SensorIds, unit \in Units : CreateSensorCheck(r, id, unit)
    \/ \E r \in Clients : CreateSensorCommit(r)
    \/ \E r \in Clients : CreateSensorRefresh(r)
    \/ \E r \in Clients, id \in SensorIds : GetSensor(r, id)
    \/ \E r \in Clients, id \in SensorIds : DeleteSensorLoad(r, id)
    \/ \E r \in Clients : DeleteSensorCascade(r)
    \/ \E r \in Clients : DeleteSensorCommit(r)
    \/ \E r \in Clients, sid \in SensorIds, cid \in CowIds : CreateMeasurementSensor(r, sid, cid)
    \/ \E r \in Clients, ts \in Timestamps, v \in Values : CreateMeasurementCow(r, ts, v)
    \/ \E r \in Clients : CreateMeasurementCommit(r)
    \/ \E r \in Clients : CreateMeasurementRefresh(r)
    \/ \E r \in Clients, mid \in MeasurementIds : GetMeasurement(r, mid)
    \/ \E r \in Clients, mid \in MeasurementIds : DeleteMeasurementLoad(r, mid)
    \/ \E r \in Clients : DeleteMeasurementCommit(r)

Spec == Init /\ [][Next]_vars

\* ================================================================== claims
\* Client r takes the commit step of its Create Measurement request.
CommitStep(r) ==
    /\ req[r].op = "create_measurement" /\ req[r].pc = "commit"
    /\ req'[r] # req[r]

\* The sensor and the cow the request of r names are stored.
Resolves(r) == sensors[req[r].sensor_id] # None /\ cows[req[r].cow_id] # None

\* The rows a step adds to table measurements.
Added == measurements' \ measurements

\* str() of the floats of Tenths, as the API's tests spell them.
ExpectedFloat == (0 - 10 :> "-1.0") @@ (0 :> "0.0") @@ (5 :> "0.5")

\* C1: a Create Measurement whose value is null, committed while its sensor (of
\* whatever unit) and its cow are stored, stores one row with is_valid = FALSE and
\* validation_error = "value is null".
C1_NullValueStoredInvalid ==
    [][\A r \in Clients :
          (CommitStep(r) /\ Resolves(r) /\ req[r].body[1].value = None)
          => \E m \in Added :
                /\ Added = {m}
                /\ m.value = None
                /\ m.is_valid = FALSE
                /\ m.validation_error = Some("value is null")]_vars

\* C1 witness: a null-valued row of a sensor whose unit is neither "L" nor "kg".
C1_Witness ==
    \E m \in measurements :
        /\ m.value = None /\ m.is_valid = FALSE
        /\ sensors[m.sensor_id] = Some([unit |-> "C"])
        /\ last.op = "create_measurement" /\ last.status = HTTP_201_CREATED

\* C2: when the sensor the request resolved has unit "L" or "kg" and the value v
\* is not null, the stored row has is_valid = FALSE and validation_error =
\* "value is <str(v)>" if v <= 0, and is_valid = TRUE and no validation_error if
\* v > 0.
C2_PositiveOnlyUnits ==
    [][\A r \in Clients :
          (CommitStep(r) /\ Resolves(r) /\ req[r].local[1] \in {"L", "kg"}
             /\ req[r].body[1].value # None)
          => LET v == req[r].body[1].value[1] IN
             \E m \in Added :
                /\ Added = {m}
                /\ m.value = Some(v)
                /\ IF v <= 0
                   THEN /\ m.is_valid = FALSE
                        /\ m.validation_error = Some("value is " \o ExpectedFloat[v])
                   ELSE /\ m.is_valid = TRUE
                        /\ m.validation_error = None]_vars

\* C2 witness: a zero value of a "kg" sensor was stored and returned as invalid.
C2_Witness ==
    /\ last.op = "create_measurement" /\ last.status = HTTP_201_CREATED
    /\ last.body[1].value = Some(0)
    /\ last.body[1].validation_error = Some("value is 0.0")
    /\ sensors[last.body[1].sensor_id] = Some([unit |-> "kg"])

\* C3: when the sensor the request resolved has a unit other than "L" and "kg",
\* every non-null value (zero and negative ones too) is stored with
\* is_valid = TRUE and no validation_error.
C3_OtherUnitsAlwaysValid ==
    [][\A r \in Clients :
          (CommitStep(r) /\ Resolves(r) /\ req[r].local[1] \notin {"L", "kg"}
             /\ req[r].body[1].value # None)
          => \E m \in Added :
                /\ Added = {m}
                /\ m.value = req[r].body[1].value
                /\ m.is_valid = TRUE
                /\ m.validation_error = None]_vars

\* C3 witness: a negative value of a "C" sensor was stored and returned as valid.
C3_Witness ==
    /\ last.op = "create_measurement" /\ last.status = HTTP_201_CREATED
    /\ last.body[1].value = Some(0 - 10)
    /\ last.body[1].is_valid = TRUE
    /\ sensors[last.body[1].sensor_id] = Some([unit |-> "C"])

\* C4: in every reachable state every stored measurement is either valid without
\* a validation_error or invalid with one.
C4_ValidityPair ==
    \A m \in measurements :
        \/ (m.is_valid = TRUE /\ m.validation_error = None)
        \/ (m.is_valid = FALSE /\ m.validation_error # None)

\* C4 witness: an invalid row is stored while a later request is being served.
C4_Witness ==
    /\ \E m \in measurements : m.is_valid = FALSE /\ m.value = None
    /\ last.op = "get_measurement" /\ last.status = HTTP_200_OK

\* C5: a Create Measurement request is never refused for its value. Its sensor
\* lookup goes on when the sensor is stored; its cow lookup goes on when the cow is
\* stored and the timestamp converts; its commit, with sensor and cow stored, adds
\* exactly one row carrying the request's value; and it answers 201 with the row.
C5_ValueNeverRejects ==
    [][\A r \in Clients :
          /\ \A sid \in SensorIds, cid \in CowIds :
                (CreateMeasurementSensor(r, sid, cid) /\ sensors[sid] # None)
                => (last' = NoResponse /\ req'[r].pc = "cow")
          /\ \A ts \in GoodTimestamps, v \in Values :
                (CreateMeasurementCow(r, ts, v) /\ cows[req[r].cow_id] # None)
                => (last' = NoResponse /\ req'[r].pc = "commit"
                      /\ req'[r].body = Some([timestamp |-> ts, value |-> v]))
          /\ (CommitStep(r) /\ Resolves(r))
             => /\ Cardinality(measurements') = Cardinality(measurements) + 1
                /\ measurements \subseteq measurements'
                /\ \E m \in Added : m.value = req[r].body[1].value
                /\ req'[r].pc = "refresh"
          /\ (CreateMeasurementRefresh(r) /\ Row(req[r].local[1]) # {})
             => (last'.status = HTTP_201_CREATED /\ last'.body[1] \in measurements)]_vars

\* C5 witness: an invalid (negative, "L") measurement was created with 201.
C5_Witness ==
    /\ last.op = "create_measurement" /\ last.status = HTTP_201_CREATED
    /\ last.body[1].is_valid = FALSE
    /\ last.body[1].value = Some(0 - 10)
    /\ last.body[1] \in measurements

\* C6: a Create Cow (Create Sensor) whose id is stored answers 409 and leaves all
\* three tables as they were, whatever name and birthdate (unit) it carries.
C6_DuplicateIdConflict ==
    [][\A r \in Clients :
          /\ \A id \in CowIds, body \in CowBodies :
                (CreateCowCheck(r, id, body) /\ cows[id] # None)
                => /\ last'.op = "create_cow" /\ last'.status = HTTP_409_CONFLICT
                   /\ req'[r] = Idle
                   /\ UNCHANGED <<cows, sensors, measurements>>
          /\ \A id \in SensorIds, unit \in Units :
                (CreateSensorCheck(r, id, unit) /\ sensors[id] # None)
                => /\ last'.op = "create_sensor" /\ last'.status = HTTP_409_CONFLICT
                   /\ req'[r] = Idle
                   /\ UNCHANGED <<cows, sensors, measurements>>]_vars

\* C6 witness: a Create Cow carrying another name and birthdate than the stored
\* cow of its id was answered 409.
C6_Witness ==
    /\ last.op = "create_cow" /\ last.status = HTTP_409_CONFLICT
    /\ cows[last.id] # None
    /\ last.body[1].name # cows[last.id][1].name
    /\ last.body[1].birthdate # cows[last.id][1].birthdate

\* C7: of two concurrent Create Cow (Create Sensor) requests with one id, the
\* request whose INSERT the primary key refuses answers 409.
C7_LoserObservesConflict ==
    [][\A r \in Clients :
          (req[r].op \in {"create_cow", "create_sensor"} /\ req[r].pc = "commit"
             /\ req'[r] = Idle)
          => last'.status = HTTP_409_CONFLICT]_vars

\* C8: a Create Measurement whose sensor is not stored answers 404 naming the
\* sensor (also when the cow is missing too), one whose cow is not stored answers
\* 404 naming the cow; neither changes a table or takes an id.
C8_UnresolvedReferenceNotFound ==
    [][\A r \in Clients :
          /\ \A sid \in SensorIds, cid \in CowIds :
                (CreateMeasurementSensor(r, sid, cid) /\ sensors[sid] = None)
                => /\ last'.status = HTTP_404_NOT_FOUND
                   /\ last'.detail = "sensor not found" /\ last'.id = sid
                   /\ req'[r] = Idle
                   /\ UNCHANGED <<cows, sensors, measurements, seq>>
          /\ \A ts \in Timestamps, v \in Values :
                (CreateMeasurementCow(r, ts, v) /\ cows[req[r].cow_id] = None)
                => /\ last'.status = HTTP_404_NOT_FOUND
                   /\ last'.detail = "cow not found" /\ last'.id = req[r].cow_id
                   /\ req'[r] = Idle
                   /\ UNCHANGED <<cows, sensors, measurements, seq>>]_vars

\* C8 witness: sensor and cow are both missing and the 404 names the sensor.
C8_Witness ==
    /\ last.op = "create_measurement" /\ last.status = HTTP_404_NOT_FOUND
    /\ last.detail = "sensor not found"
    /\ sensors[last.body[1].sensor_id] = None
    /\ cows[last.body[1].cow_id] = None

\* C9: in every reachable state, under every interleaving of the handlers' steps,
\* each stored measurement's sensor_id names a stored sensor and its cow_id names
\* a stored cow.
C9_ReferentialIntegrity ==
    \A m \in measurements : sensors[m.sensor_id] # None /\ cows[m.cow_id] # None

\* C9 witness: a Create Measurement passed both lookups, its sensor was deleted
\* before its commit, and the INSERT was refused.
C9_Witness ==
    /\ last.op = "create_measurement" /\ last.status = HTTP_500_INTERNAL
    /\ last.body # None
    /\ sensors[last.body[1].sensor_id] = None
    /\ cows[last.body[1].cow_id] # None

\* C10: a Delete Cow of a stored cow answers 204, removes the cow and the
\* measurements of that cow, and leaves every other row in place.
C10_DeleteCowCascades ==
    [][\A r \in Clients, id \in CowIds :
          (DeleteCow(r, id) /\ cows[id] # None)
          => /\ last'.status = HTTP_204_NO_CONTENT
             /\ cows' = [cows EXCEPT ![id] = None]
             /\ measurements' = {m \in measurements : m.cow_id # id}
             /\ sensors' = sensors]_vars

\* ============================================== Get Cow: latest per unit
\* app/routes/cows.py, get_cow and get_latest_measurements_sync / _async.
\* The lookup reads the store and writes nothing.

\* The request slot of the read-only specifications.
Reporter == "r1"

\* Number of rows of table measurements in the stores of the lookup.
LatestRows == 3
LatestTimestamps == {1, 2}

\* bind.dialect.name of the session, and the test that selects the path.
DialectNames == {"postgresql", "sqlite"}
IsPostgres(dialect_name) == dialect_name = "postgresql"

\* The sequences that enumerate a finite set once each.
RECURSIVE Perms(_)
Perms(S) ==
    IF S = {} THEN {<<>>} ELSE UNION {{<<x>> \o p : p \in Perms(S \ {x})} : x \in S}

\* Order of the unit strings under ORDER BY sensors.unit.
UnitRank(u) == CASE u = "C" -> 1 [] u = "L" -> 2 [] u = "kg" -> 3

\* setattr(m, "unit", unit): the measurement carrying its sensor's unit.
WithUnit(m, unit) ==
    [id |-> m.id, sensor_id |-> m.sensor_id, cow_id |-> m.cow_id,
     timestamp |-> m.timestamp, value |-> m.value, is_valid |-> m.is_valid,
     validation_error |-> m.validation_error, unit |-> unit]

\* Variant of the join: the filter on cow_id left out.
JoinedRowsAnyCow(cow_id) ==
    {WithUnit(m, sensors[m.sensor_id][1].unit) :
        m \in {x \in measurements : sensors[x.sensor_id] # None}}

\* measurements JOIN sensors ON sensor_id = sensors.id WHERE cow_id = :cow_id.
JoinedRows(cow_id) ==
    {WithUnit(m, sensors[m.sensor_id][1].unit) :
        m \in {x \in measurements : x.cow_id = cow_id /\ sensors[x.sensor_id] # None}}

\* Variant of the sort: timestamp ascending.
OrderedByUnitTimestampAsc(rows) ==
    {f \in Perms(rows) :
        \A i \in 1..(Cardinality(rows) - 1) :
            \/ UnitRank(f[i].unit) < UnitRank(f[i + 1].unit)
            \/ f[i].unit = f[i + 1].unit /\ f[i].timestamp <= f[i + 1].timestamp}

\* ORDER BY sensors.unit, measurements.timestamp DESC: every order the sort may
\* produce (rows equal in both keys come in either order).
OrderedByUnitTimestampDesc(rows) ==
    {f \in Perms(rows) :
        \A i \in 1..(Cardinality(rows) - 1) :
            \/ UnitRank(f[i].unit) < UnitRank(f[i + 1].unit)
            \/ f[i].unit = f[i + 1].unit /\ f[i].timestamp >= f[i + 1].timestamp}

\* DISTINCT ON (sensors.unit): the first row of every run of equal units.
RECURSIVE DistinctOnUnit(_)
DistinctOnUnit(f) ==
    IF Len(f) <= 1
    THEN f
    ELSE LET rest == DistinctOnUnit(Tail(f)) IN
         IF f[1].unit = f[2].unit THEN <<f[1]>> \o Tail(rest) ELSE <<f[1]>> \o rest

\* get_latest_measurements_sync, lines 112-124 (async: 163-175): the outcomes
\* of the single DISTINCT ON query.
LatestDistinctOn(cow_id) ==
    {DistinctOnUnit(f) : f \in OrderedByUnitTimestampDesc(JoinedRows(cow_id))}

\* SELECT DISTINCT sensors.unit ... WHERE measurements.cow_id = :cow_id.
UnitRows(cow_id) == {e.unit : e \in JoinedRows(cow_id)}

\* Variant of the per-unit query: only valid measurements.
FirstValidByTimestampDesc(cow_id, unit) ==
    LET rows == {e \in JoinedRows(cow_id) : e.unit = unit /\ e.is_valid} IN
    {e \in rows : \A o \in rows : o.timestamp <= e.timestamp}

\* ... WHERE cow_id = :cow_id AND sensors.unit = :unit ORDER BY timestamp DESC,
\* first row: the rows the query may return.
FirstByTimestampDesc(cow_id, unit) ==
    LET rows == {e \in JoinedRows(cow_id) : e.unit = unit} IN
    {e \in rows : \A o \in rows : o.timestamp <= e.timestamp}

\* get_latest_measurements_sync, lines 126-147 (async: 177-199): the units in
\* the order the DISTINCT query gives them, one query per unit, a unit whose
\* query finds no row contributing nothing.
LatestFallback(cow_id) ==
    LET units == UnitRows(cow_id)
        found == {u \in units : FirstByTimestampDesc(cow_id, u) # {}}
        picks == {p \in [found -> JoinedRows(cow_id)] :
                     \A u \in found : p[u] \in FirstByTimestampDesc(cow_id, u)}
    IN  UNION {{[i \in 1..Cardinality(found) |-> p[us[i]]] : p \in picks} :
               us \in Perms(found)}

\* get_latest_measurements_*: the path is chosen by the dialect name.
LatestMeasurements(cow_id, dialect_name) ==
    IF IsPostgres(dialect_name) THEN LatestDistinctOn(cow_id) ELSE LatestFallback(cow_id)

\* get_cow, lines 74-96: 404 for an unknown cow, else the cow with its latest
\* measurement per unit.
GetCow(r, id, dialect_name) ==
    /\ req[r] = Idle
    /\ IF cows[id] = None
       THEN last' = Response("get_cow", HTTP_404_NOT_FOUND, "cow not found", id, None)
       ELSE \E latest \in LatestMeasurements(id, dialect_name) :
                last' = Response("get_cow", HTTP_200_OK, "", id,
                                 Some([cow |-> cows[id][1], latest_measurements |-> latest]))
    /\ UNCHANGED <<cows, sensors, measurements, seq, flavour, req, loader>>

\* The stores of the lookup: cows c1 and c2 (c3 is not stored), two sensors of
\* unit L and one of unit kg, and up to LatestRows measurements classified as
\* create_measurement classifies them.
LatestCows ==
    [c \in {"c1", "c2", "c3"} |->
        IF c = "c3" THEN None ELSE Some([name |-> "Bessie", birthdate |-> "2020-01-09"])]
LatestSensors ==
    [s \in {"s1", "s2", "s3"} |-> Some([unit |-> IF s = "s3" THEN "kg" ELSE "L"])]
LatestBodies ==
    {[sensor_id |-> "s1", cow_id |-> "c1", timestamp |-> t, value |-> v] :
        t \in LatestTimestamps, v \in {None, Some(5)}}
    \cup {[sensor_id |-> s, cow_id |-> "c1", timestamp |-> t, value |-> Some(5)] :
            s \in {"s2", "s3"}, t \in LatestTimestamps}
    \cup {[sensor_id |-> "s1", cow_id |-> "c2", timestamp |-> 2, value |-> Some(5)]}

\* The row create_measurement stores for a body, lines 69-93.
StoredRow(id, b, unit) ==
    [id |-> id, sensor_id |-> b.sensor_id, cow_id |-> b.cow_id,
     timestamp |-> b.timestamp, value |-> b.value,
     is_valid |-> Classify(b.value, unit).is_valid,
     validation_error |-> Classify(b.value, unit).validation_error]

InitLatest ==
    /\ cows = LatestCows
    /\ sensors = LatestSensors
    /\ \E f \in [1..LatestRows -> {None} \cup {Some(b) : b \in LatestBodies}] :
          measurements =
              {StoredRow(i, f[i][1], LatestSensors[f[i][1].sensor_id][1].unit) :
                  i \in {j \in 1..LatestRows : f[j] # None}}
    /\ seq = LatestRows
    /\ flavour \in {"sync", "async"}
    /\ req = [r \in Clients |-> Idle]
    /\ last = NoResponse
    /\ loader = NoLoader

NextLatest == \E id \in DOMAIN cows, d \in DialectNames : GetCow(Reporter, id, d)

SpecLatest == InitLatest /\ [][NextLatest]_vars

\* The measurements of a cow taken by sensors of a unit.
CowUnitRows(cow_id, unit) ==
    {m \in measurements : /\ m.cow_id = cow_id
                          /\ sensors[m.sensor_id] # None
                          /\ sensors[m.sensor_id][1].unit = unit}

\* An entry of latest_measurements without its unit tag: the stored row.
StripUnit(e) ==
    [id |-> e.id, sensor_id |-> e.sensor_id, cow_id |-> e.cow_id,
     timestamp |-> e.timestamp, value |-> e.value, is_valid |-> e.is_valid,
     validation_error |-> e.validation_error]

GotCow == last.op = "get_cow" /\ last.status = HTTP_200_OK
Latest == last.body[1].latest_measurements

\* C11: the latest-per-unit list of a cow has exactly one entry for every unit
\* among the sensors that measured the cow and none for another unit; every
\* entry is a stored measurement of that cow by a sensor of that unit, with the
\* greatest timestamp among those, tagged with the unit; a cow without
\* measurements gets the empty list.
C11_LatestPerUnit ==
    GotCow =>
        LET units == {u \in Units : CowUnitRows(last.id, u) # {}} IN
        /\ {Latest[i].unit : i \in 1..Len(Latest)} = units
        /\ Len(Latest) = Cardinality(units)
        /\ \A i \in 1..Len(Latest) :
              /\ StripUnit(Latest[i]) \in CowUnitRows(last.id, Latest[i].unit)
              /\ \A m \in CowUnitRows(last.id, Latest[i].unit) :
                    m.timestamp <= Latest[i].timestamp
        /\ ({m \in measurements : m.cow_id = last.id} = {} => Latest = <<>>)

\* A cow measured by both sensors of unit L at different times, another cow's
\* measurement being stored too: the one entry of unit L.
C11_Witness ==
    /\ GotCow /\ Len(Latest) = 1
    /\ \E m1, m2 \in CowUnitRows(last.id, "L") :
          m1.sensor_id # m2.sensor_id /\ m1.timestamp < m2.timestamp
    /\ \E m \in measurements : m.cow_id # last.id

\* C12: the lookup does not filter on is_valid: when the measurements of the
\* greatest timestamp of a (cow, unit) pair are invalid, the entry of the unit
\* is such an invalid measurement with its validation_error, older valid
\* measurements notwithstanding.
C12_LatestIgnoresValidity ==
    GotCow =>
        \A u \in Units :
            LET rows == CowUnitRows(last.id, u)
                top == {m \in rows : \A o \in rows : o.timestamp <= m.timestamp}
            IN  (top # {} /\ \A m \in top : ~m.is_valid) =>
                    \E i \in 1..Len(Latest) :
                        /\ Latest[i].unit = u
                        /\ StripUnit(Latest[i]) \in top
                        /\ ~Latest[i].is_valid
                        /\ Latest[i].validation_error # None

\* An invalid entry returned although an older valid measurement of the unit exists.
C12_Witness ==
    /\ GotCow
    /\ \E i \in 1..Len(Latest) :
          /\ ~Latest[i].is_valid
          /\ Latest[i].validation_error = Some("value is null")
          /\ \E m \in CowUnitRows(last.id, Latest[i].unit) :
                m.is_valid /\ m.timestamp < Latest[i].timestamp

\* The entries of a list, and whether the timestamps of a cow are distinct
\* within every unit.
Entries(l) == {l[i] : i \in 1..Len(l)}
DistinctTimestamps(cow_id) ==
    \A u \in Units : \A m1, m2 \in CowUnitRows(cow_id, u) :
        m1.timestamp = m2.timestamp => m1 = m2

\* C13: for every stored cow, whatever the DISTINCT ON path may return and
\* whatever the fallback path may return have the same units and, per unit, the
\* same timestamp; they are the same entries when the timestamps within each
\* unit are distinct.
C13_PathsEquivalent ==
    \A id \in {c \in DOMAIN cows : cows[c] # None} :
        \A a \in LatestDistinctOn(id), b \in LatestFallback(id) :
            /\ {e.unit : e \in Entries(a)} = {e.unit : e \in Entries(b)}
            /\ Len(a) = Len(b)
            /\ \A x \in Entries(a), y \in Entries(b) :
                  x.unit = y.unit => x.timestamp = y.timestamp
            /\ DistinctTimestamps(id) => Entries(a) = Entries(b)

\* A cow was looked up whose two paths may return different rows of one
\* timestamp for a unit, and which has two units.
C13_Witness ==
    /\ GotCow /\ Len(Latest) = 2
    /\ \E a \in LatestDistinctOn(last.id), b \in LatestFallback(last.id) :
          Entries(a) # Entries(b)

\* ================================================================ reports
\* app/routes/reports.py: the handlers of the reports router, as tests/test_reports.py
\* requests them (app/main.py includes the cows, sensors and measurements
\* routers only). Calendar days are numbered from 2021-08-31 (day 0);
\* instants are counted in half days from 2021-08-31 00:00, so that day d
\* begins at instant 2 * d and 2 * d + 1 is its noon.
Midnight(day) == 2 * day
DayOf(ts) == ts \div 2
Interval(days) == 2 * days

\* INTERVAL '3 days' of data_status and INTERVAL '30 days' of the average window.
STALE_DAYS == 3
WINDOW_DAYS == 30

\* datetime.fromisoformat(s).date(): the strings it accepts and their days;
\* every other string raises.
IsoDates == {"1900-01-01", "2021-09-07", "2021-09-10", "2021-09-13", "9999-12-31"}
IsoDay(s) ==
    CASE s = "1900-01-01" -> 0 - 44437
      [] s = "2021-09-07" -> 7
      [] s = "2021-09-10" -> 10
      [] s = "2021-09-13" -> 13
      [] s = "9999-12-31" -> 2914026

\* Query parameters of the reports: omitted, empty, not a date, dates.
DateParams ==
    {None, Some(""), Some("10/09/2021"), Some("2021-09-10"), Some("2021-09-13")}
\* What date.today() may be.
Todays == {10, 13}

\* ------------------------------------------------------- Weight Report
\* Variant of the WHERE clause: is_valid not tested.
QualifiesWeightAnyValidity(m, rd) ==
    /\ sensors[m.sensor_id] # None
    /\ sensors[m.sensor_id][1].unit = "kg"
    /\ m.timestamp <= Midnight(rd)

\* weights_report, lines 52-57: measurements JOIN sensors WHERE m.is_valid AND
\* s.unit = 'kg' AND m.timestamp <= report_date (the date compares as its midnight).
QualifiesWeight(m, rd) ==
    /\ m.is_valid
    /\ sensors[m.sensor_id] # None
    /\ sensors[m.sensor_id][1].unit = "kg"
    /\ m.timestamp <= Midnight(rd)

\* PARTITION BY m.cow_id of the rows above.
CowWeightRows(cow_id, rd) ==
    {m \in measurements : m.cow_id = cow_id /\ QualifiesWeight(m, rd)}

\* ORDER BY m.timestamp DESC within a partition: the orders the sort may produce.
PartitionOrders(cow_id, rd) ==
    {f \in Perms(CowWeightRows(cow_id, rd)) :
        \A i \in 1..(Cardinality(CowWeightRows(cow_id, rd)) - 1) :
            f[i].timestamp >= f[i + 1].timestamp}

\* Variant of the numbering: RANK(), which numbers equal timestamps alike.
RankNumber(f, i) == 1 + Cardinality({j \in 1..Len(f) : f[j].timestamp > f[i].timestamp})

\* ROW_NUMBER() over the ordered partition.
RowNumber(f, i) == i

\* Variant of the frame: the row exactly 30 days before the current row is
\* outside it.
WindowRowsExclusive(m, rd) ==
    {o \in CowWeightRows(m.cow_id, rd) :
        /\ m.timestamp - Interval(WINDOW_DAYS) < o.timestamp
        /\ o.timestamp <= m.timestamp}

\* RANGE BETWEEN INTERVAL '30 days' PRECEDING AND CURRENT ROW, ordered by
\* timestamp: the rows of the partition in the frame of row m (its peers included).
WindowRows(m, rd) ==
    {o \in CowWeightRows(m.cow_id, rd) :
        /\ m.timestamp - Interval(WINDOW_DAYS) <= o.timestamp
        /\ o.timestamp <= m.timestamp}

RECURSIVE SumValues(_)
SumValues(rows) ==
    IF rows = {}
    THEN 0
    ELSE LET m == CHOOSE x \in rows : TRUE IN m.value[1] + SumValues(rows \ {m})

\* AVG(m.value) over a frame: NULL values are skipped, no value gives NULL.
\* The average is kept as the fraction sum / count.
Avg(rows) ==
    LET vals == {m \in rows : m.value # None} IN
    IF vals = {} THEN None ELSE Some([sum |-> SumValues(vals), count |-> Cardinality(vals)])

\* The rows of cow_weight of one partition, lines 43-57.
CowWeight(f, rd) ==
    {[cow_id |-> f[i].cow_id, value |-> f[i].value, timestamp |-> f[i].timestamp,
      rn |-> RowNumber(f, i),
      previous_30_day_weight_avg |-> Avg(WindowRows(f[i], rd))] : i \in 1..Len(f)}

\* Variant of data_status: a measurement exactly three days old is stale.
DataStatusStaleAtThreeDays(cs, rd) ==
    IF cs = None \/ cs[1].value = None
    THEN "No Data"
    ELSE IF cs[1].timestamp <= Midnight(rd) - Interval(STALE_DAYS)
         THEN "Stale Data (>3 days)"
         ELSE "Active"

\* data_status, lines 64-68; cs is the joined cow_weight row, None when the
\* LEFT JOIN found none.
DataStatus(cs, rd) ==
    IF cs = None \/ cs[1].value = None
    THEN "No Data"
    ELSE IF cs[1].timestamp < Midnight(rd) - Interval(STALE_DAYS)
         THEN "Stale Data (>3 days)"
         ELSE "Active"

\* Variant of potentially_ill: the 90% of the comment at line 70.
PotentiallyIllNinety(value, avg) ==
    IF value = None \/ avg = None
    THEN FALSE
    ELSE 100 * value[1] * avg[1].count < 90 * avg[1].sum

\* potentially_ill, lines 71-74: value < avg * 0.95, with avg = sum / count.
PotentiallyIll(value, avg) ==
    IF value = None \/ avg = None
    THEN FALSE
    ELSE 100 * value[1] * avg[1].count < 95 * avg[1].sum

\* The SELECT list for cow c and its joined row, lines 58-74.
WeightRow(c, cs, rd) ==
    LET value == IF cs = None THEN None ELSE cs[1].value
        avg == IF cs = None THEN None ELSE cs[1].previous_30_day_weight_avg
    IN  [id |-> c,
         name |-> cows[c][1].name,
         last_measured_at |-> IF cs = None THEN None ELSE Some(cs[1].timestamp),
         last_weight |-> value,
         previous_30_day_weight_avg |-> avg,
         data_status |-> DataStatus(cs, rd),
         potentially_ill |-> PotentiallyIll(value, avg)]

\* Order of the cow names under ORDER BY c.name.
NameRank(n) == CASE n = "Bessie" -> 1 [] n = "Daisy" -> 2

\* The statement of weights_report, lines 35-80: every result it may give. Each
\* partition is ordered and numbered, every cow is LEFT JOINed to the rows of
\* its partition numbered 1, and the result is ordered by name.
WeightsQuery(rd) ==
    LET stored == {c \in DOMAIN cows : cows[c] # None}
        orders == {o \in [stored -> UNION {PartitionOrders(c, rd) : c \in stored}] :
                      \A c \in stored : o[c] \in PartitionOrders(c, rd)}
        Joined(o) ==
            UNION {LET cs == {x \in CowWeight(o[c], rd) : x.rn = 1} IN
                   IF cs = {}
                   THEN {WeightRow(c, None, rd)}
                   ELSE {WeightRow(c, Some(x), rd) : x \in cs} : c \in stored}
    IN  UNION {{s \in Perms(Joined(o)) :
                   \A i \in 1..(Cardinality(Joined(o)) - 1) :
                       NameRank(s[i].name) <= NameRank(s[i + 1].name)} : o \in orders}

\* The keys of the result rows, written before the first row.
WeightsHeader ==
    <<"id", "name", "last_measured_at", "last_weight",
      "previous_30_day_weight_avg", "data_status", "potentially_ill">>

\* Lines 89-104: the header is written when the first row is seen, then every
\* row; the file name carries the report date.
WeightsCsv(rows, rd) ==
    [report_date |-> rd,
     header |-> IF rows = <<>> THEN <<>> ELSE <<WeightsHeader>>,
     rows |-> rows]

\* weights_report, lines 24-33: the date parameter is parsed when it is truthy,
\* else today is taken.
WeightsReportParse(r, date, today) ==
    /\ req[r] = Idle
    /\ IF date # None /\ date[1] # ""
       THEN IF date[1] \in IsoDates
            THEN /\ req' = [req EXCEPT ![r] =
                              [Idle EXCEPT !.op = "weights_report", !.pc = "execute",
                                           !.body = Some([date |-> date]),
                                           !.local = Some(IsoDay(date[1]))]]
                 /\ last' = NoResponse
            ELSE /\ last' = Response("weights_report", HTTP_400_BAD_REQUEST,
                                     "Invalid date format, expected YYYY-MM-DD", "",
                                     Some([date |-> date]))
                 /\ UNCHANGED req
       ELSE /\ req' = [req EXCEPT ![r] =
                         [Idle EXCEPT !.op = "weights_report", !.pc = "execute",
                                      !.body = Some([date |-> date]),
                                      !.local = Some(today)]]
            /\ last' = NoResponse
    /\ UNCHANGED <<cows, sensors, measurements, seq, flavour, loader>>

\* weights_report, lines 35-104: the statement is executed and its result
\* rendered.
WeightsReportExecute(r) ==
    /\ req[r].op = "weights_report" /\ req[r].pc = "execute"
    /\ \E rows \in WeightsQuery(req[r].local[1]) :
          last' = Response("weights_report", HTTP_200_OK, "", "",
                           Some(WeightsCsv(rows, req[r].local[1])))
    /\ req' = [req EXCEPT ![r] = Idle]
    /\ UNCHANGED <<cows, sensors, measurements, seq, flavour, loader>>

\* The stores of the weight report: cows c1 (always) and c2, a kg sensor and an
\* L sensor, up to WeightRows measurements taken at noon of day 6, at 00:00 of
\* day 7, at 00:00 of day 10 and at noon of day 10, or, for c1, 30 days before
\* 00:00 of day 10 and half a day earlier than that.
WeightRows == 2
WeightTimestamps == {13, 14, 20, 21}
WeightOldTimestamps == {20 - Interval(WINDOW_DAYS) - 1, 20 - Interval(WINDOW_DAYS)}
WeightTenths == {0, 3800, 3950, 4250, 4400}
WeightCowTables ==
    {[c \in {"c1", "c2"} |->
        IF c \in stored
        THEN Some([name |-> IF c = "c1" THEN "Daisy" ELSE "Bessie",
                   birthdate |-> "2020-01-09"])
        ELSE None] : stored \in {{}, {"c1"}, {"c1", "c2"}}}
ReportSensors == [s \in {"s1", "s2"} |-> Some([unit |-> IF s = "s1" THEN "kg" ELSE "L"])]
WeightBodies ==
    {[sensor_id |-> "s1", cow_id |-> "c1", timestamp |-> t, value |-> v] :
        t \in WeightTimestamps, v \in {None} \cup {Some(x) : x \in WeightTenths}}
    \cup {[sensor_id |-> "s1", cow_id |-> "c2", timestamp |-> t, value |-> Some(4400)] :
            t \in {14, 21}}
    \cup {[sensor_id |-> "s2", cow_id |-> "c1", timestamp |-> 20, value |-> Some(3800)]}
    \cup {[sensor_id |-> "s1", cow_id |-> "c1", timestamp |-> t, value |-> Some(4400)] :
            t \in WeightOldTimestamps}

InitWeights ==
    /\ cows \in WeightCowTables
    /\ sensors = ReportSensors
    /\ \E f \in [1..WeightRows -> {None} \cup {Some(b) : b \in WeightBodies}] :
          /\ \A i \in 1..WeightRows : f[i] # None => cows[f[i][1].cow_id] # None
          /\ measurements =
                {StoredRow(i, f[i][1], ReportSensors[f[i][1].sensor_id][1].unit) :
                    i \in {j \in 1..WeightRows : f[j] # None}}
    /\ seq = WeightRows
    /\ flavour \in {"sync", "async"}
    /\ req = [r \in Clients |-> Idle]
    /\ last = NoResponse
    /\ loader = NoLoader

NextWeights ==
    \/ \E date \in DateParams, today \in Todays : WeightsReportParse(Reporter, date, today)
    \/ WeightsReportExecute(Reporter)

SpecWeights == InitWeights /\ [][NextWeights]_vars

\* ---- claims on the weight report
GotWeights == last.op = "weights_report" /\ last.status = HTTP_200_OK
WeightsRows == last.body[1].rows
WeightsDate == last.body[1].report_date

\* The measurements of a cow that are valid, of a kg sensor and not after the
\* report date, and those of them with the greatest timestamp.
Qualifying(cow_id, rd) ==
    {m \in measurements : /\ m.cow_id = cow_id
                          /\ m.is_valid
                          /\ sensors[m.sensor_id] # None
                          /\ sensors[m.sensor_id][1].unit = "kg"
                          /\ m.timestamp <= Midnight(rd)}
LatestQualifying(cow_id, rd) ==
    {m \in Qualifying(cow_id, rd) :
        \A o \in Qualifying(cow_id, rd) : o.timestamp <= m.timestamp}

\* C14: the weight report has exactly one row for every stored cow (also when
\* qualifying measurements share the latest timestamp); a cow without a valid kg
\* measurement at or before the report date has empty last_measured_at,
\* last_weight and average, data_status "No Data" and potentially_ill false.
C14_OneRowPerCow ==
    GotWeights =>
        /\ Len(WeightsRows) = Cardinality({c \in DOMAIN cows : cows[c] # None})
        /\ {WeightsRows[i].id : i \in 1..Len(WeightsRows)}
               = {c \in DOMAIN cows : cows[c] # None}
        /\ \A i \in 1..Len(WeightsRows) :
              Qualifying(WeightsRows[i].id, WeightsDate) = {} =>
                  /\ WeightsRows[i].last_measured_at = None
                  /\ WeightsRows[i].last_weight = None
                  /\ WeightsRows[i].previous_30_day_weight_avg = None
                  /\ WeightsRows[i].data_status = "No Data"
                  /\ WeightsRows[i].potentially_ill = FALSE

\* Two stored cows, one with two qualifying measurements of the same latest
\* timestamp, the other with none: two rows, the second cow's with No Data.
C14_Witness ==
    /\ GotWeights /\ Len(WeightsRows) = 2
    /\ \E c \in DOMAIN cows : Cardinality(LatestQualifying(c, WeightsDate)) = 2
    /\ \E i \in 1..Len(WeightsRows) :
          /\ Qualifying(WeightsRows[i].id, WeightsDate) = {}
          /\ WeightsRows[i].data_status = "No Data"

\* C15: last_measured_at and last_weight of a cow are the timestamp and value
\* of a measurement of the greatest timestamp among the cow's valid kg
\* measurements with timestamp <= report date; an invalid measurement, one of
\* another unit or one after the report date is never the one shown.
C15_LastWeightIsLatestQualifying ==
    GotWeights =>
        \A i \in 1..Len(WeightsRows) :
            /\ Qualifying(WeightsRows[i].id, WeightsDate) # {} =>
                  \E m \in LatestQualifying(WeightsRows[i].id, WeightsDate) :
                      /\ WeightsRows[i].last_measured_at = Some(m.timestamp)
                      /\ WeightsRows[i].last_weight = m.value
            /\ WeightsRows[i].last_measured_at # None =>
                  \E m \in Qualifying(WeightsRows[i].id, WeightsDate) :
                      /\ WeightsRows[i].last_measured_at = Some(m.timestamp)
                      /\ WeightsRows[i].last_weight = m.value

\* A row showing a measurement although the cow has a more recent one that is
\* invalid, of another unit or after the report date.
C15_Witness ==
    /\ GotWeights
    /\ \E i \in 1..Len(WeightsRows) :
          /\ WeightsRows[i].last_measured_at # None
          /\ \E m \in measurements :
                /\ m.cow_id = WeightsRows[i].id
                /\ m.timestamp > WeightsRows[i].last_measured_at[1]
                /\ ~m.is_valid

\* C16: data_status is "No Data" exactly when the cow has no qualifying
\* measurement, "Stale Data (>3 days)" exactly when the latest qualifying
\* timestamp is strictly earlier than the report date minus 3 days, and
\* "Active" otherwise, a timestamp equal to that bound included.
C16_DataStatus ==
    GotWeights =>
        \A i \in 1..Len(WeightsRows) :
            LET q == LatestQualifying(WeightsRows[i].id, WeightsDate)
                bound == Midnight(WeightsDate) - Interval(3)
            IN  /\ WeightsRows[i].data_status
                      \in {"No Data", "Stale Data (>3 days)", "Active"}
                /\ WeightsRows[i].data_status = "No Data" <=> q = {}
                /\ WeightsRows[i].data_status = "Stale Data (>3 days)"
                      <=> (q # {} /\ \A m \in q : m.timestamp < bound)
                /\ WeightsRows[i].data_status = "Active"
                      <=> (q # {} /\ \A m \in q : m.timestamp >= bound)

\* An Active row whose measurement is exactly three days before the report date.
C16_Witness ==
    /\ GotWeights
    /\ \E i \in 1..Len(WeightsRows) :
          /\ WeightsRows[i].data_status = "Active"
          /\ WeightsRows[i].last_measured_at
                 = Some(Midnight(WeightsDate) - Interval(3))

MilkDateParams ==
    {None, Some(""), Some("10/09/2021"), Some("2021-09-07"), Some("2021-09-10")}

\* cows c LEFT JOIN measurements m ON c.id = m.cow_id, lines 140-142: a cow
\* without measurements is joined to the NULL row.
MilkJoined ==
    LET stored == {c \in DOMAIN cows : cows[c] # None} IN
    {[cow_id |-> m.cow_id, m |-> Some(m)] : m \in {x \in measurements : x.cow_id \in stored}}
    \cup {[cow_id |-> c, m |-> None] :
            c \in {x \in stored : \A y \in measurements : y.cow_id # x}}

\* Variant of the WHERE clause: the unit not tested.
MilkQualifiesAnyUnit(j, sd, ed) ==
    /\ j.m # None
    /\ sensors[j.m[1].sensor_id] # None
    /\ j.m[1].is_valid
    /\ Midnight(sd) <= j.m[1].timestamp /\ j.m[1].timestamp <= Midnight(ed)

\* JOIN sensors s ON m.sensor_id = s.id WHERE m.is_valid AND s.unit = 'L' AND
\* m.timestamp between start_date and end_date, lines 143-147 (the dates
\* compare as their midnights).
MilkQualifies(j, sd, ed) ==
    /\ j.m # None
    /\ sensors[j.m[1].sensor_id] # None
    /\ j.m[1].is_valid
    /\ sensors[j.m[1].sensor_id][1].unit = "L"
    /\ Midnight(sd) <= j.m[1].timestamp /\ j.m[1].timestamp <= Midnight(ed)

\* Order of the cow ids under ORDER BY 1.
CowRank(c) == CASE c = "c1" -> 1 [] c = "c2" -> 2

\* The statement of milk_report, lines 131-151: GROUP BY c.id, m.timestamp::DATE
\* with sum(m.value), ordered by id and day descending.
MilkQuery(sd, ed) ==
    LET rows == {j \in MilkJoined : MilkQualifies(j, sd, ed)}
        keys == {<<j.cow_id, DayOf(j.m[1].timestamp)>> : j \in rows}
        Group(k) == {j.m[1] : j \in {x \in rows : /\ x.cow_id = k[1]
                                                  /\ DayOf(x.m[1].timestamp) = k[2]}}
        result == {[id |-> k[1], day |-> k[2],
                    milk_production |->
                        SumValues({m \in Group(k) : m.value # None})] : k \in keys}
    IN  {s \in Perms(result) :
            \A i \in 1..(Cardinality(result) - 1) :
                \/ CowRank(s[i].id) > CowRank(s[i + 1].id)
                \/ s[i].id = s[i + 1].id /\ s[i].day >= s[i + 1].day}

MilkHeader == <<"id", "day", "milk_production">>

\* Lines 161-176: the header is written when the first row is seen, then every
\* row; the file name carries both dates.
MilkCsv(rows, sd, ed) ==
    [start_date |-> sd, end_date |-> ed,
     header |-> IF rows = <<>> THEN <<>> ELSE <<MilkHeader>>,
     rows |-> rows]

\* milk_report, lines 115-129: each parameter is parsed when it is truthy, else
\* its default is taken; start_date is parsed first.
MilkReportParse(r, start_date, end_date) ==
    /\ req[r] = Idle
    /\ LET params == Some([start_date |-> start_date, end_date |-> end_date])
           sd == IF start_date # None /\ start_date[1] # ""
                 THEN IsoDay(start_date[1]) ELSE IsoDay("1900-01-01")
           ed == IF end_date # None /\ end_date[1] # ""
                 THEN IsoDay(end_date[1]) ELSE IsoDay("9999-12-31")
       IN
       IF start_date # None /\ start_date[1] # "" /\ start_date[1] \notin IsoDates
       THEN /\ last' = Response("milk_report", HTTP_400_BAD_REQUEST,
                                "Invalid start_date format", "", params)
            /\ UNCHANGED req
       ELSE IF end_date # None /\ end_date[1] # "" /\ end_date[1] \notin IsoDates
            THEN /\ last' = Response("milk_report", HTTP_400_BAD_REQUEST,
                                     "Invalid end_date format", "", params)
                 /\ UNCHANGED req
            ELSE /\ req' = [req EXCEPT ![r] =
                              [Idle EXCEPT !.op = "milk_report", !.pc = "execute",
                                           !.body = params,
                                           !.local = Some([sd |-> sd, ed |-> ed])]]
                 /\ last' = NoResponse
    /\ UNCHANGED <<cows, sensors, measurements, seq, flavour, loader>>

\* milk_report, lines 131-176: the statement is executed and its result rendered.
MilkReportExecute(r) ==
    /\ req[r].op = "milk_report" /\ req[r].pc = "execute"
    /\ LET sd == req[r].local[1].sd
           ed == req[r].local[1].ed
       IN  \E rows \in MilkQuery(sd, ed) :
               last' = Response("milk_report", HTTP_200_OK, "", "",
                                Some(MilkCsv(rows, sd, ed)))
    /\ req' = [req EXCEPT ![r] = Idle]
    /\ UNCHANGED <<cows, sensors, measurements, seq, flavour, loader>>

\* The stores of the milk report: cows c1 and c2, the kg and the L sensor, up
\* to MilkRows measurements taken at noon of day 6, at 00:00 and noon of day 7
\* and at 00:00 and noon of day 10.
MilkRows == 2
MilkTimestamps == {14, 15, 20, 21}
MilkTenths == {50, 70}
MilkCows ==
    [c \in {"c1", "c2"} |->
        Some([name |-> IF c = "c1" THEN "Daisy" ELSE "Bessie", birthdate |-> "2020-01-09"])]
MilkBodies ==
    {[sensor_id |-> "s2", cow_id |-> "c1", timestamp |-> t, value |-> v] :
        t \in MilkTimestamps, v \in {None} \cup {Some(x) : x \in MilkTenths}}
    \cup {[sensor_id |-> "s2", cow_id |-> "c1", timestamp |-> 13, value |-> Some(50)]}
    \cup {[sensor_id |-> "s2", cow_id |-> "c2", timestamp |-> t, value |-> Some(70)] :
            t \in {15, 21}}
    \cup {[sensor_id |-> "s1", cow_id |-> "c1", timestamp |-> 15, value |-> Some(50)]}

InitMilk ==
    /\ cows = MilkCows
    /\ sensors = ReportSensors
    /\ \E f \in [1..MilkRows -> {None} \cup {Some(b) : b \in MilkBodies}] :
          measurements =
              {StoredRow(i, f[i][1], ReportSensors[f[i][1].sensor_id][1].unit) :
                  i \in {j \in 1..MilkRows : f[j] # None}}
    /\ seq = MilkRows
    /\ flavour \in {"sync", "async"}
    /\ req = [r \in Clients |-> Idle]
    /\ last = NoResponse
    /\ loader = NoLoader

NextMilk ==
    \/ \E start_date \in MilkDateParams, end_date \in MilkDateParams :
          MilkReportParse(Reporter, start_date, end_date)
    \/ MilkReportExecute(Reporter)

SpecMilk == InitMilk /\ [][NextMilk]_vars

\* ---- claims on the milk report
GotMilk == last.op = "milk_report" /\ last.status = HTTP_200_OK
MilkResult == last.body[1].rows
MilkStart == last.body[1].start_date
MilkEnd == last.body[1].end_date

\* The valid L measurements of a cow on a day that the statement's range
\* start_date <= timestamp <= end_date holds for.
MilkOfDay(cow_id, day) ==
    {m \in measurements : /\ m.cow_id = cow_id
                          /\ DayOf(m.timestamp) = day
                          /\ m.is_valid
                          /\ sensors[m.sensor_id] # None
                          /\ sensors[m.sensor_id][1].unit = "L"
                          /\ Midnight(MilkStart) <= m.timestamp
                          /\ m.timestamp <= Midnight(MilkEnd)}
MilkDays == {DayOf(t) : t \in MilkTimestamps \cup {13}}

C19_EndpointDaysInclusive ==
    GotMilk =>
        \A m \in measurements :
            (/\ cows[m.cow_id] # None
             /\ m.is_valid
             /\ sensors[m.sensor_id] # None
             /\ sensors[m.sensor_id][1].unit = "L"
             /\ DayOf(m.timestamp) \in {MilkStart, MilkEnd}
             /\ MilkStart <= MilkEnd)
                => \E i \in 1..Len(MilkResult) :
                       /\ MilkResult[i].id = m.cow_id
                       /\ MilkResult[i].day = DayOf(m.timestamp)
                       /\ MilkResult[i].milk_production
                              = SumValues({o \in measurements :
                                              /\ o.cow_id = m.cow_id
                                              /\ DayOf(o.timestamp) = DayOf(m.timestamp)
                                              /\ o.is_valid
                                              /\ sensors[o.sensor_id] # None
                                              /\ sensors[o.sensor_id][1].unit = "L"})

\* --------------------------------------------- parameters of the reports
\* Requests to both reports on stores of 0..2 cows without measurements.
InitReportParams ==
    /\ cows \in WeightCowTables
    /\ sensors = ReportSensors
    /\ measurements = {}
    /\ seq = 0
    /\ flavour \in {"sync", "async"}
    /\ req = [r \in Clients |-> Idle]
    /\ last = NoResponse
    /\ loader = NoLoader

NextReportParams ==
    \/ \E date \in DateParams, today \in Todays : WeightsReportParse(Reporter, date, today)
    \/ WeightsReportExecute(Reporter)
    \/ \E start_date \in MilkDateParams, end_date \in MilkDateParams :
          MilkReportParse(Reporter, start_date, end_date)
    \/ MilkReportExecute(Reporter)

SpecReportParams == InitReportParams /\ [][NextReportParams]_vars

\* A parameter that is present and that datetime.fromisoformat does not accept.
Unparseable(p) == p # None /\ p[1] \notin IsoDates

\* C20: a report request with a date parameter (date, start_date, end_date)
\* that is present but unparseable is answered 400 and never reaches the
\* execution of its statement; an omitted parameter takes its default (today,
\* 1900-01-01, 9999-12-31).
C20_BadDateRejected ==
    [][LET accepted == /\ req[Reporter] = Idle
                       /\ req'[Reporter].pc = "execute"
           params == req'[Reporter].body[1]
           rd == req'[Reporter].local[1]
       IN  /\ (accepted /\ req'[Reporter].op = "weights_report") =>
                  /\ ~Unparseable(params.date)
                  /\ params.date = None => rd \in Todays
           /\ (accepted /\ req'[Reporter].op = "milk_report") =>
                  /\ ~Unparseable(params.start_date)
                  /\ ~Unparseable(params.end_date)
                  /\ params.start_date = None => rd.sd = IsoDay("1900-01-01")
                  /\ params.end_date = None => rd.ed = IsoDay("9999-12-31")
           /\ (last'.op = "weights_report" /\ last'.status = HTTP_400_BAD_REQUEST) =>
                  /\ Unparseable(last'.body[1].date)
                  /\ req'[Reporter] = Idle
           /\ (last'.op = "milk_report" /\ last'.status = HTTP_400_BAD_REQUEST) =>
                  /\ Unparseable(last'.body[1].start_date)
                        \/ Unparseable(last'.body[1].end_date)
                  /\ req'[Reporter] = Idle
      ]_vars

\* ====================================================== List Measurements
\* app/routes/measurements.py, list_measurements: the page statement, then the
\* count statement.
ListRows == 3
ListSkips == {0, 1}
ListLimits == {0 - 1, 1, 100}
ListCowFilters == {None, Some(""), Some("c1")}
ListSensorFilters == {None, Some("s1")}

\* if cow_id: / if sensor_id: a filter is applied when the parameter is truthy.
FilterApplied(f) == f # None /\ f[1] # ""

\* The filtered query, lines 127-131 (async: 109-113).
ListMatching(p) ==
    {m \in measurements :
        /\ FilterApplied(p.cow_id) => m.cow_id = p.cow_id[1]
        /\ FilterApplied(p.sensor_id) => m.sensor_id = p.sensor_id[1]}

\* OFFSET :skip LIMIT :limit of one order of the rows.
ListSlice(order, skip, limit) ==
    SubSeq(order, skip + 1, IF skip + limit < Len(order) THEN skip + limit ELSE Len(order))

\* query.offset(skip).limit(limit).all(), line 132 (async: 114-116): without
\* ORDER BY the rows come in any order; every page the statement may return.
ListPages(p) == {ListSlice(order, p.skip, p.limit) : order \in Perms(ListMatching(p))}

\* Variant of the count: the rows of the page are counted.
ListTotalOfPage(p, page) == Len(page)

\* query.count(), line 133 (async: 119-125): the filtered rows without OFFSET
\* and LIMIT.
ListTotal(p, page) == Cardinality(ListMatching(p))

\* list_measurements, lines 108-116 / 127-132: the page statement. PostgreSQL
\* rejects a negative OFFSET or LIMIT; the error is not caught.
ListMeasurementsPage(r, skip, limit, cow_id, sensor_id) ==
    /\ req[r] = Idle
    /\ LET p == [skip |-> skip, limit |-> limit, cow_id |-> cow_id, sensor_id |-> sensor_id] IN
       IF skip < 0 \/ limit < 0
       THEN /\ last' = Response("list_measurements", HTTP_500_INTERNAL,
                                "Internal Server Error", "", Some(p))
            /\ UNCHANGED req
       ELSE /\ \E page \in ListPages(p) :
                  req' = [req EXCEPT ![r] =
                            [Idle EXCEPT !.op = "list_measurements", !.pc = "count",
                                         !.body = Some(p), !.local = Some(page)]]
            /\ last' = NoResponse
    /\ UNCHANGED <<cows, sensors, measurements, seq, flavour, loader>>

\* list_measurements, lines 118-125 / 133-135: the count statement and the answer.
ListMeasurementsCount(r) ==
    /\ req[r].op = "list_measurements" /\ req[r].pc = "count"
    /\ last' = Response("list_measurements", HTTP_200_OK, "", "",
                        Some([measurements |-> req[r].local[1],
                              total |-> ListTotal(req[r].body[1], req[r].local[1])]))
    /\ req' = [req EXCEPT ![r] = Idle]
    /\ UNCHANGED <<cows, sensors, measurements, seq, flavour, loader>>

\* The stores of the listing: up to ListRows measurements of cows c1, c2 by
\* sensors s1, s2.
ListCows ==
    [c \in {"c1", "c2"} |-> Some([name |-> "Bessie", birthdate |-> "2020-01-09"])]
ListSensors == [s \in {"s1", "s2"} |-> Some([unit |-> "L"])]
ListBodies ==
    {[sensor_id |-> s, cow_id |-> "c1", timestamp |-> 1, value |-> Some(5)] :
        s \in {"s1", "s2"}}
    \cup {[sensor_id |-> "s1", cow_id |-> "c2", timestamp |-> 1, value |-> Some(5)]}

InitList ==
    /\ cows = ListCows
    /\ sensors = ListSensors
    /\ \E f \in [1..ListRows -> {None} \cup {Some(b) : b \in ListBodies}] :
          measurements =
              {StoredRow(i, f[i][1], ListSensors[f[i][1].sensor_id][1].unit) :
                  i \in {j \in 1..ListRows : f[j] # None}}
    /\ seq = ListRows
    /\ flavour \in {"sync", "async"}
    /\ req = [r \in Clients |-> Idle]
    /\ last = NoResponse
    /\ loader = NoLoader

NextList ==
    \/ \E skip \in ListSkips, limit \in ListLimits,
          cow_id \in ListCowFilters, sensor_id \in ListSensorFilters :
          ListMeasurementsPage(Reporter, skip, limit, cow_id, sensor_id)
    \/ ListMeasurementsCount(Reporter)

SpecList == InitList /\ [][NextList]_vars

C22_DeleteSensorDurable ==
    [][\A r \in Clients, id \in SensorIds :
          /\ ((DeleteSensorLoad(r, id) \/ (DeleteSensorCommit(r) /\ req[r].sensor_id = id))
                 /\ last'.status = HTTP_204_NO_CONTENT)
                => /\ sensors'[id] = None
                   /\ \A m \in measurements' : m.sensor_id # id
          /\ (DeleteSensorLoad(r, id) /\ sensors[id] = None)
                => /\ last'.status = HTTP_404_NOT_FOUND
                   /\ UNCHANGED <<cows, sensors, measurements>>]_vars

\* C26: every report answer is the header row of the column names followed by
\* one data row per result row, also when the statement yields no row: then
\* the body is the header row alone.
C26_HeaderAlways ==
    /\ GotWeights => last.body[1].header = <<WeightsHeader>>
    /\ GotMilk => last.body[1].header = <<MilkHeader>>

\* C27: the average shown for a cow is the arithmetic mean (sum / count) of the
\* values of the cow's valid kg measurements with
\* t_latest - 30 days <= t <= t_latest, t_latest being the timestamp of the
\* measurement shown; both bounds are inclusive, and the average is present
\* whenever the latest value is.
C27_ThirtyDayAverage ==
    GotWeights =>
        \A i \in 1..Len(WeightsRows) :
            LET q == Qualifying(WeightsRows[i].id, WeightsDate) IN
            q # {} =>
                LET t_latest == WeightsRows[i].last_measured_at[1]
                    window == {m \in q : /\ t_latest - Interval(30) <= m.timestamp
                                         /\ m.timestamp <= t_latest
                                         /\ m.value # None}
                    a == WeightsRows[i].previous_30_day_weight_avg
                IN  /\ window = {} <=> a = None
                    /\ window # {} =>
                          /\ a[1].count = Cardinality(window)
                          /\ a[1].sum = SumValues(window)
                    /\ WeightsRows[i].last_weight # None => a # None

\* An average over two measurements, the earlier taken exactly 30 days before
\* the latest.
C27_Witness ==
    /\ GotWeights
    /\ \E i \in 1..Len(WeightsRows) :
          /\ WeightsRows[i].previous_30_day_weight_avg # None
          /\ WeightsRows[i].previous_30_day_weight_avg[1].count = 2
          /\ \E m \in Qualifying(WeightsRows[i].id, WeightsDate) :
                m.timestamp = WeightsRows[i].last_measured_at[1] - Interval(30)

\* C28: under every interleaving of requests a cow or sensor that is stored
\* keeps its name and birthdate (its unit) for as long as it exists: a create
\* of a stored id, later or concurrent, never overwrites the row, and the
\* INSERT of a concurrent create that lost the race is rejected with the store
\* unchanged, so no id is ever held twice.
C28_CreateNeverOverwrites ==
    [][/\ \A id \in CowIds :
             (cows[id] # None /\ cows'[id] # None) => cows'[id] = cows[id]
       /\ \A id \in SensorIds :
             (sensors[id] # None /\ sensors'[id] # None) => sensors'[id] = sensors[id]
       /\ \A r \in Clients :
             /\ (CreateCowCommit(r) /\ cows[req[r].cow_id] # None)
                   => (UNCHANGED cows /\ last'.status = HTTP_500_INTERNAL)
             /\ (CreateSensorCommit(r) /\ sensors[req[r].sensor_id] # None)
                   => (UNCHANGED sensors /\ last'.status = HTTP_500_INTERNAL)]_vars

\* A create that passed its existence check, lost the race to a concurrent
\* create of the same id with another body, and failed at its INSERT: the
\* stored cow is the winner's.
C28_Witness ==
    /\ last.op = "create_cow" /\ last.status = HTTP_500_INTERNAL
    /\ cows[last.id] # None
    /\ last.body # cows[last.id]
    /\ \A r \in Clients : req[r] = Idle

\* ================================================================ bulk loader
\* src/utils/load_data.py: main runs load_cows, load_sensors and
\* load_measurements one after the other; each creates one post_row task per
\* row of its data frame, all sharing one semaphore. A step of the model is a
\* stretch of one task (or of main) between two suspensions of the event loop.
\* The server is not part of this specification: what a request meets is drawn
\* from the outcomes a POST can have.

\* Rows in each of the three data frames.
LoaderRows == 2
LoaderRowIds == 1..LoaderRows
\* The size of the semaphore (50 in the source, scaled with the number of rows
\* so that tasks wait at it).
MAX_CONCURRENT_REQUESTS == 1
\* post_row, line 90.
attempts == 3
\* The statuses a response may carry.
ResponseStatuses == {201, 300, 404, 503}

\* A post_row task as created by load_*: not yet at the semaphore. attempt is
\* the loop variable, status the value returned, slept the delays of
\* asyncio.sleep so far, in tenths of a second.
NewTask == [pc |-> "created", attempt |-> 0, status |-> None, slept |-> <<>>]

LoaderRunning == loader.phase \in {"cows", "sensors", "measurements"}

\* Variant of the semaphore: one that admits every task.
SemaphoreUnlocked == TRUE

\* asyncio.Semaphore: acquire goes on without waiting while _value > 0.
CanAcquire == loader.value > 0

\* The tasks inside `async with semaphore`.
Holders == {i \in LoaderRowIds : loader.task[i].pc \in {"post", "sleep"}}

\* post_row, `return status`: leaving `async with` releases the semaphore.
Returned(t, status) == [t EXCEPT !.pc = "done", !.status = Some(status)]

\* Variant of the handler: it sleeps and goes on however many attempts were made.
RaisedUnbounded(t) ==
    [t EXCEPT !.pc = "sleep", !.slept = Append(t.slept, 5 * t.attempt)]

\* post_row, lines 100-105: the handler of an exception raised in an attempt.
Raised(t) ==
    IF t.attempt = attempts
    THEN Returned(t, 500)
    ELSE [t EXCEPT !.pc = "sleep", !.slept = Append(t.slept, 5 * t.attempt)]

\* The semaphore after task i went from t to u.
Released(t, u) ==
    IF t.pc # "done" /\ u.pc = "done" THEN loader.value + 1 ELSE loader.value

\* post_row, lines 43-87 with session None: the task enters the semaphore,
\* prints the payload, returns 200 and leaves it, without suspending.
PostRowDryRun(i) ==
    /\ LoaderRunning /\ loader.dry_run
    /\ loader.task[i].pc = "created"
    /\ CanAcquire
    /\ loader' = [loader EXCEPT !.task[i] = Returned(@, HTTP_200_OK)]
    /\ UNCHANGED <<cows, sensors, measurements, seq, flavour, req, last>>

\* post_row, lines 43-93: the task enters the semaphore, normalises the payload
\* and starts the request of attempt 1.
PostRowAcquire(i) ==
    /\ LoaderRunning /\ ~loader.dry_run
    /\ loader.task[i].pc = "created"
    /\ CanAcquire
    /\ loader' = [loader EXCEPT !.task[i] = [@ EXCEPT !.pc = "post", !.attempt = 1],
                                !.value = @ - 1]
    /\ UNCHANGED <<cows, sensors, measurements, seq, flavour, req, last>>

\* Variant of the attempt: a status >= 400 is handled like an exception.
PostRowResponseRetrying(i, status, text_raises) ==
    /\ LoaderRunning
    /\ loader.task[i].pc = "post"
    /\ LET t == loader.task[i]
           u == IF status >= 400 THEN Raised(t) ELSE Returned(t, status)
       IN  loader' = [loader EXCEPT !.task[i] = u, !.value = Released(t, u)]
    /\ UNCHANGED <<cows, sensors, measurements, seq, flavour, req, last>>

\* post_row, lines 93-99: the request is answered. A status >= 400 has its body
\* read inside the inner try; if reading raises, the handler of lines 100-105
\* runs, otherwise the status is returned.
PostRowResponse(i, status, text_raises) ==
    /\ LoaderRunning
    /\ loader.task[i].pc = "post"
    /\ LET t == loader.task[i]
           u == IF status >= 400 /\ text_raises THEN Raised(t) ELSE Returned(t, status)
       IN  loader' = [loader EXCEPT !.task[i] = u, !.value = Released(t, u)]
    /\ UNCHANGED <<cows, sensors, measurements, seq, flavour, req, last>>

\* post_row, lines 93/100-105: session.post raises (connection error, timeout).
PostRowRaise(i) ==
    /\ LoaderRunning
    /\ loader.task[i].pc = "post"
    /\ LET t == loader.task[i]
           u == Raised(t)
       IN  loader' = [loader EXCEPT !.task[i] = u, !.value = Released(t, u)]
    /\ UNCHANGED <<cows, sensors, measurements, seq, flavour, req, last>>

\* post_row, lines 104-105/91-93: the sleep ends and the next attempt starts.
PostRowSleepDone(i) ==
    /\ LoaderRunning
    /\ loader.task[i].pc = "sleep"
    /\ loader' = [loader EXCEPT !.task[i] = [@ EXCEPT !.pc = "post", !.attempt = @ + 1]]
    /\ UNCHANGED <<cows, sensors, measurements, seq, flavour, req, last>>

\* Variant of gather: it returns when the first task has returned.
GatherFirstDone == \E i \in LoaderRowIds : loader.task[i].pc = "done"

\* await asyncio.gather(*tasks): every task has returned.
GatherDone == \A i \in LoaderRowIds : loader.task[i].pc = "done"

\* load_cows returns (line 128) and load_sensors creates its tasks (lines 136-147).
LoadCowsDone ==
    /\ loader.phase = "cows"
    /\ GatherDone
    /\ loader' = [loader EXCEPT !.phase = "sensors",
                                !.task = [i \in LoaderRowIds |-> NewTask]]
    /\ UNCHANGED <<cows, sensors, measurements, seq, flavour, req, last>>

\* load_sensors returns (line 148) and load_measurements creates its tasks and
\* zeroes its counters (lines 156-175).
LoadSensorsDone ==
    /\ loader.phase = "sensors"
    /\ GatherDone
    /\ loader' = [loader EXCEPT !.phase = "measurements",
                                !.task = [i \in LoaderRowIds |-> NewTask],
                                !.completed = 0, !.successes = 0, !.failures = 0]
    /\ UNCHANGED <<cows, sensors, measurements, seq, flavour, req, last>>

\* Variant of the test of a status: every status below 400 counts as a success.
IsSuccessBelow400(status) == status # 0 /\ 200 <= status /\ status < 400

\* load_measurements, line 180: `status and 200 <= status < 300`.
IsSuccess(status) == status # 0 /\ 200 <= status /\ status < 300

\* load_measurements, lines 177-183: as_completed hands over a task that has
\* returned and was not handed over before; its status is counted.
AsCompleted(i) ==
    /\ loader.phase = "measurements"
    /\ loader.task[i].pc = "done"
    /\ i \notin loader.counted
    /\ loader' = [loader EXCEPT
                     !.counted = @ \cup {i},
                     !.completed = @ + 1,
                     !.successes = IF IsSuccess(loader.task[i].status[1]) THEN @ + 1 ELSE @,
                     !.failures = IF IsSuccess(loader.task[i].status[1]) THEN @ ELSE @ + 1]
    /\ UNCHANGED <<cows, sensors, measurements, seq, flavour, req, last>>

\* load_measurements, lines 177/188-190: as_completed is exhausted, the final
\* counts are printed and main ends.
LoadMeasurementsDone ==
    /\ loader.phase = "measurements"
    /\ loader.counted = LoaderRowIds
    /\ loader' = [loader EXCEPT !.phase = "done"]
    /\ UNCHANGED <<cows, sensors, measurements, seq, flavour, req, last>>

\* main, lines 195-206/215: the semaphore, the dry-run flag and the tasks of
\* load_cows.
InitLoader ==
    /\ cows = [c \in CowIds |-> None]
    /\ sensors = [s \in SensorIds |-> None]
    /\ measurements = {}
    /\ seq = 0
    /\ flavour = "sync"
    /\ req = [r \in Clients |-> Idle]
    /\ last = NoResponse
    /\ \E dry_run \in BOOLEAN :
          loader = [phase |-> "cows", dry_run |-> dry_run,
                    task |-> [i \in LoaderRowIds |-> NewTask],
                    value |-> MAX_CONCURRENT_REQUESTS,
                    counted |-> {}, completed |-> 0, successes |-> 0, failures |-> 0]

NextLoader ==
    \/ \E i \in LoaderRowIds : PostRowDryRun(i)
    \/ \E i \in LoaderRowIds : PostRowAcquire(i)
    \/ \E i \in LoaderRowIds, status \in ResponseStatuses, text_raises \in BOOLEAN :
          PostRowResponse(i, status, text_raises)
    \/ \E i \in LoaderRowIds : PostRowRaise(i)
    \/ \E i \in LoaderRowIds : PostRowSleepDone(i)
    \/ LoadCowsDone
    \/ LoadSensorsDone
    \/ \E i \in LoaderRowIds : AsCompleted(i)
    \/ LoadMeasurementsDone

SpecLoader == InitLoader /\ [][NextLoader]_vars

\* The event loop runs every task that can go on, and every request ends, by a
\* response or by an exception (ClientTimeout(total=60), line 210).
SpecLoaderLive == SpecLoader /\ WF_vars(NextLoader)

\* ---- claims on the bulk loader
\* C23: at every moment the number of rows inside the semaphore, their request
\* in flight or sleeping between two attempts, is at most
\* MAX_CONCURRENT_REQUESTS, however many row tasks were created; the semaphore
\* counts exactly the free places.
C23_BoundedConcurrency ==
    LoaderRunning =>
        /\ Cardinality(Holders) <= MAX_CONCURRENT_REQUESTS
        /\ loader.value = MAX_CONCURRENT_REQUESTS - Cardinality(Holders)

\* The semaphore is full, one holder sleeping between two attempts, and another
\* task waits at it.
C23_Witness ==
    /\ LoaderRunning
    /\ Cardinality(Holders) = MAX_CONCURRENT_REQUESTS
    /\ \E i \in Holders : loader.task[i].pc = "sleep"
    /\ \E i \in LoaderRowIds : loader.task[i].pc = "created"

C25_MeasurementsComplete ==
    <>(/\ loader.phase = "done"
       /\ loader.completed = LoaderRows
       /\ loader.successes + loader.failures = LoaderRows
       /\ loader.successes =
             Cardinality({i \in LoaderRowIds :
                 /\ loader.task[i].status[1] >= 200
                 /\ loader.task[i].status[1] < 300}))

\* The loader has ended with a row that failed after three attempts that raised
\* and a row that succeeded.
C25_Witness ==
    /\ loader.phase = "done"
    /\ loader.completed = LoaderRows
    /\ loader.successes = 1
    /\ loader.failures = LoaderRows - 1
    /\ \E i \in LoaderRowIds :
          loader.task[i].status = Some(500) /\ loader.task[i].attempt = 3

\* C29: the three phases run strictly in order: the loader goes from cows to
\* sensors and from sensors to measurements only when every task of the phase
\* has returned, so no request of a later phase is in flight with one of an
\* earlier phase.
C29_PhasesInOrder ==
    [][loader'.phase # loader.phase =>
          /\ \A i \in LoaderRowIds : loader.task[i].pc = "done"
          /\ loader.value = MAX_CONCURRENT_REQUESTS
          /\ <<loader.phase, loader'.phase>>
                \in {<<"cows", "sensors">>, <<"sensors", "measurements">>,
                     <<"measurements", "done">>}
          /\ loader'.phase # "done" =>
                \A i \in LoaderRowIds : loader'.task[i].pc = "created"]_vars

\* A measurement request in flight: the cow and the sensor phases are over.
C29_Witness ==
    /\ loader.phase = "measurements"
    /\ \E i \in LoaderRowIds : loader.task[i].pc = "post"
    /\ \E i \in LoaderRowIds : loader.task[i].pc = "created"

\* C30 as stated: a row whose request receives a response with status >= 400
\* is not retried: the status is returned as the row's final status.
C30_ErrorStatusNeverRetried ==
    [][\A i \in LoaderRowIds, status \in ResponseStatuses, text_raises \in BOOLEAN :
          (PostRowResponse(i, status, text_raises) /\ status >= 400)
              => /\ loader'.task[i].pc = "done"
                 /\ loader'.task[i].status = Some(status)]_vars

\* C30: an attempt that ends with a response of status >= 400, 5xx included,
\* the body of which was read, is the row's last: the status is returned as the
\* row's final status and the row is counted as a failure. Only an attempt that
\* raises (in the request or in reading the body of such a response) is
\* followed by another attempt or, if it was the third, by status 500.
C30_ErrorStatusReturned ==
    [][\A i \in LoaderRowIds :
          LET t == loader.task[i]
              u == loader'.task[i]
          IN  /\ \A status \in ResponseStatuses :
                    /\ (PostRowResponse(i, status, FALSE) /\ status >= 400)
                          => /\ u.pc = "done" /\ u.status = Some(status)
                             /\ u.attempt = t.attempt
                    /\ (PostRowResponse(i, status, TRUE) /\ status >= 400)
                          => IF t.attempt = 3
                             THEN u.pc = "done" /\ u.status = Some(500)
                             ELSE u.pc = "sleep" /\ u.status = None
              /\ (t.pc = "done" /\ loader'.phase = loader.phase) => u = t
              /\ (AsCompleted(i) /\ t.status[1] >= 400)
                    => /\ loader'.failures = loader.failures + 1
                       /\ loader'.successes = loader.successes
              /\ (u.attempt > t.attempt /\ t.attempt >= 1 /\ loader'.phase = loader.phase)
                    => t.pc = "sleep"]_vars

\* A measurement row answered 404 at its first attempt and counted a failure.
C30_Witness ==
    /\ loader.phase = "measurements"
    /\ \E i \in loader.counted :
          /\ loader.task[i].status = Some(404)
          /\ loader.task[i].attempt = 1
    /\ loader.failures >= 1
====
